---- MODULE Spec2Model ----
(***************************************************************************)
(* Model of the structure-validation scripts:                              *)
(*   src/06_compare_structures.py  (calculate_rmsd,                        *)
(*       parse_arpeggio_interactions, compare_interactions,                *)
(*       generate_comparison_report, main)                                 *)
(*   src/04_analyze_interactions.py (extract_interactions)                 *)
(*                                                                         *)
(* Python strings are sequences of one-character strings; they are         *)
(* compared by code point, as Python compares str values.  JSON values     *)
(* are records tagged by a "kind" field.  Rational numbers (the floats of  *)
(* precision, recall and f1) are exact fractions <<num, den>>.             *)
(***************************************************************************)
EXTENDS Integers, Sequences, FiniteSets, TLC

VARIABLES
    pc,                  \* position of the running script
    BIOPYTHON_AVAILABLE, \* module flag set by the import at line 45-51
    predicted_pdb,       \* content of the predicted structure file
    experimental_pdb,    \* content of the experimental structure file
    atom_type,           \* argument of the calculate_rmsd call under study
    rmsd,                \* outcome of the calculate_rmsd call under study
    rmsd_results,        \* main: dict 'CA' / 'all' -> result of calculate_rmsd
    data,                \* content of the contact-map file being parsed
    parsed6,             \* outcome of parse_arpeggio_interactions(data)
    parsed4,             \* outcome of extract_interactions(data)
    predicted_json,      \* main: content of the predicted contact-map file
    experimental_json,   \* main: content of the experimental contact-map file
    pred_interactions,   \* list of (res1, res2, type) triples
    exp_interactions,    \* list of (res1, res2, type) triples
    comparison,          \* result of compare_interactions
    report,              \* what generate_comparison_report wrote
    raised,              \* exception that left main, "none" while there is none
    interactions4,       \* step 4 main: list `interactions` of extracted records
    min_interactions,    \* step 4 main: args.min_interactions
    analysis,            \* step 4 main: result of analyze_interactions
    hot_spots            \* step 4 main: result of identify_hot_spots

vars == <<pc, BIOPYTHON_AVAILABLE, predicted_pdb, experimental_pdb, atom_type,
          rmsd, rmsd_results, data, parsed6, parsed4, predicted_json,
          experimental_json, pred_interactions, exp_interactions, comparison,
          report, raised, interactions4, min_interactions, analysis,
          hot_spots>>

(***************************************************************************)
(* Python str: comparison, strip('/'), split('/')                          *)
(***************************************************************************)

\* Code points of the characters that occur in the modelled inputs.
Ord ==
    ("/" :> 47) @@ ("0" :> 48) @@ ("1" :> 49) @@ ("2" :> 50) @@ ("3" :> 51) @@
    ("9" :> 57) @@ (":" :> 58) @@ ("A" :> 65) @@ ("B" :> 66) @@ ("C" :> 67) @@
    ("G" :> 71) @@ ("L" :> 76) @@ ("N" :> 78) @@ ("Y" :> 89) @@ ("b" :> 98) @@
    ("d" :> 100) @@ ("h" :> 104) @@ ("k" :> 107) @@ ("n" :> 110) @@
    ("o" :> 111) @@ ("u" :> 117) @@ ("v" :> 118) @@ ("w" :> 119)

\* a < b for two Python str values (lexicographic by code point)
RECURSIVE StrLess(_, _)
StrLess(a, b) ==
    IF b = <<>> THEN FALSE
    ELSE IF a = <<>> THEN TRUE
    ELSE IF Ord[Head(a)] # Ord[Head(b)] THEN Ord[Head(a)] < Ord[Head(b)]
    ELSE StrLess(Tail(a), Tail(b))

RECURSIVE LStrip(_)
LStrip(s) ==
    IF s # <<>> /\ Head(s) = "/" THEN LStrip(Tail(s)) ELSE s

RECURSIVE RStrip(_)
RStrip(s) ==
    IF s # <<>> /\ s[Len(s)] = "/" THEN RStrip(SubSeq(s, 1, Len(s) - 1)) ELSE s

\* s.strip('/')
Strip(s) == RStrip(LStrip(s))

\* s.split('/'): the segments between slashes, empty segments included
RECURSIVE Split(_)
Split(s) ==
    IF \E i \in 1..Len(s) : s[i] = "/"
    THEN LET i == CHOOSE j \in 1..Len(s) :
                      s[j] = "/" /\ \A k \in 1..(j - 1) : s[k] # "/"
         IN  <<SubSeq(s, 1, i - 1)>> \o Split(SubSeq(s, i + 1, Len(s)))
    ELSE <<s>>

\* PathParts without the split: the characters of the stripped path
PathPartsUnsplit(path) ==
    [i \in 1..Len(Strip(path)) |-> <<Strip(path)[i]>>]

\* atom_key.strip('/').split('/')
PathParts(path) == Split(Strip(path))

\* ResidueId with the residue number before the residue name
ResidueIdNumberFirst(parts) == parts[1] \o <<":">> \o parts[2] \o parts[3]

\* f"{chain}:{resname}{resnum}" of parts[:4] = chain, resnum, resname, atomname
ResidueId(parts) == parts[1] \o <<":">> \o parts[3] \o parts[2]

\* SortedPair without the sort: [res1, res2]
UnsortedPair(res1, res2) == <<res1, res2>>

\* sorted([res1, res2])
SortedPair(res1, res2) ==
    IF StrLess(res2, res1) THEN <<res2, res1>> ELSE <<res1, res2>>

(***************************************************************************)
(* JSON values and the contact-map inputs                                  *)
(*   a top-level mapping  [kind |-> "dict", items |-> <<<<key, value>>..>>]*)
(*       (items in file order, the order data.items() yields)              *)
(*   an inner object      [kind |-> "dict", fields |-> [name |-> value]]   *)
(*   a list               [kind |-> "list", elems |-> <<...>>]             *)
(*   a string             [kind |-> "str", s |-> <<chars>>]                *)
(*   a file that is no JSON text at all  [kind |-> "invalid"]              *)
(* Distances are JSON numbers counted in tenths of an Angstrom; the field  *)
(* values of bgn_atom and type are Python str.  A field whose JSON value   *)
(* has another type is one of the values Null, Unhashable, NotANumber.     *)
(***************************************************************************)

MaxEntries == 2     \* entries of a contact map
MaxContacts == 2    \* contact objects of a contact map, over all its entries

JMap(items) == [kind |-> "dict", items |-> items]
JObject(fields) == [kind |-> "dict", fields |-> fields]
JList(elems) == [kind |-> "list", elems |-> elems]
JStr(s) == [kind |-> "str", s |-> s]
JNumber == [kind |-> "number"]
InvalidJson == [kind |-> "invalid"]

\* JSON null where a string is expected: the value None, which is no sequence
\* of characters and has no strip method
Null == <<"null">>

\* a JSON list where the type string is expected: a Python list, which can
\* be put in a tuple or a dict value but is no key of a Counter
Unhashable == <<"list">>

\* a JSON string such as "n/a" where the distance is expected: it is truthy
\* and float() rejects it.  No distance of a file is negative, and -1 stands
\* for this string in the distance field.
NotANumber == -1

hbond == <<"h", "b", "o", "n", "d">>
vdw == <<"v", "d", "w">>
unknown == <<"u", "n", "k", "n", "o", "w", "n">>

PathA10 == <<"/", "A", "/", "1", "0", "/", "A", "L", "A", "/", "C", "A">>
PathB20 == <<"/", "B", "/", "2", "0", "/", "G", "L", "Y", "/", "C", "B">>
\* trailing slash, and a residue number that sorts after "10" as a string
PathA9 == <<"/", "A", "/", "9", "/", "A", "L", "A", "/", "N", "/">>
\* two segments only
PathShort == <<"A", "/", "1", "0">>

SourceKeys == {PathA10, PathB20, PathShort}

ContactObjects ==
    { JObject([bgn_atom |-> PathB20, type |-> hbond, distance |-> 32]),
      JObject([bgn_atom |-> PathA10, type |-> hbond]),
      JObject([bgn_atom |-> PathA9, distance |-> 0]),
      JObject([bgn_atom |-> PathShort, type |-> vdw, distance |-> 32]),
      JObject([type |-> hbond]),
      JObject([bgn_atom |-> Null, type |-> hbond]),
      JStr(hbond) }

\* the lists of exactly n contact objects
RECURSIVE ContactLists(_, _)
ContactLists(objects, n) ==
    IF n = 0 THEN {<<>>}
    ELSE {<<c>> \o l : c \in objects, l \in ContactLists(objects, n - 1)}

\* the values of a map entry that hold exactly n contact objects
AtomDataWith(objects, n) ==
    {JObject([contact |-> JList(l)]) : l \in ContactLists(objects, n)}
    \cup (IF n = 0 THEN {JStr(hbond), JObject(<<>>)} ELSE {})
    \cup (IF n = 1 THEN {JObject([contact |-> c]) : c \in objects} ELSE {})

\* AtomDataWith, tabulated
AtomDataTable == [c \in 0..MaxContacts |-> AtomDataWith(ContactObjects, c)]

\* `file` holds a mapping: the items `acc` followed by at most n further
\* entries with distinct keys outside `used` and at most b contact objects,
\* the entry values taken from `table`
RECURSIVE HoldsContactMap(_, _, _, _, _, _)
HoldsContactMap(file, acc, used, n, b, table) ==
    \/ file = JMap(acc)
    \/ /\ n > 0
       /\ \E k \in SourceKeys \ used, c \in 0..b :
             \E v \in table[c] :
                HoldsContactMap(file, Append(acc, <<k, v>>), used \cup {k},
                                n - 1, b - c, table)

\* files whose top-level value is no mapping, or that hold no JSON at all
BrokenFiles == {InvalidJson, JList(<<>>), JStr(hbond), JNumber}

(***************************************************************************)
(* src/06_compare_structures.py: parse_arpeggio_interactions               *)
(***************************************************************************)

\* the outcome of a call: it returned a value or an exception left it
Idle == "idle"
NotCalled == [raised |-> "not called"]
Returned(value) == [raised |-> "none", value |-> value]
Raised(exception) == [raised |-> exception]

\* d.get(name, default) of an inner object
Get(d, name, default) ==
    IF name \in DOMAIN d.fields THEN d.fields[name] ELSE default

\* Counter: counts[key] += 1
Increment(counts, key) ==
    IF key \in DOMAIN counts
    THEN [counts EXCEPT ![key] = @ + 1]
    ELSE counts @@ (key :> 1)

\* if not isinstance(contacts, list): contacts = [contacts]
AsList(contacts) ==
    IF contacts.kind = "list" THEN contacts.elems ELSE <<contacts>>

\* tuple(sorted([res1, res2])) + (itype,)
Interaction(res1, res2, itype) == SortedPair(res1, res2) \o <<itype>>

\* the loop over the contacts of one source atom, from contact i on
RECURSIVE ContactLoop6(_, _, _, _)
ContactLoop6(res1, contacts, i, acc) ==
    IF i > Len(contacts) THEN Returned(acc)
    ELSE LET contact == contacts[i]
         IN  IF contact.kind # "dict"
             THEN ContactLoop6(res1, contacts, i + 1, acc)
             ELSE LET bgn_atom == Get(contact, "bgn_atom", <<>>)
                      itype == Get(contact, "type", unknown)
                      bgn_parts == PathParts(bgn_atom)
                  IN  IF bgn_atom = Null
                      THEN Raised("AttributeError")
                      ELSE IF Len(bgn_parts) < 4
                      THEN ContactLoop6(res1, contacts, i + 1, acc)
                      ELSE IF itype = Unhashable
                      THEN Raised("TypeError")
                      ELSE ContactLoop6(res1, contacts, i + 1,
                             [interactions |->
                                  Append(acc.interactions,
                                         Interaction(res1, ResidueId(bgn_parts), itype)),
                              interaction_types |->
                                  Increment(acc.interaction_types, itype)])

\* the loop over data.items(), from item i on
RECURSIVE EntryLoop6(_, _, _)
EntryLoop6(items, i, acc) ==
    IF i > Len(items) THEN Returned(acc)
    ELSE LET atom_key == items[i][1]
             atom_data == items[i][2]
         IN  IF atom_data.kind # "dict" \/ "contact" \notin DOMAIN atom_data.fields
             THEN EntryLoop6(items, i + 1, acc)
             ELSE LET parts == PathParts(atom_key)
                  IN  IF Len(parts) < 4
                      THEN EntryLoop6(items, i + 1, acc)
                      ELSE LET looped ==
                                   ContactLoop6(ResidueId(parts),
                                                AsList(atom_data.fields.contact),
                                                1, acc)
                           IN  IF looped.raised # "none" THEN looped
                               ELSE EntryLoop6(items, i + 1, looped.value)

\* json.load(f): a file that holds no JSON text raises
JsonLoad(file) ==
    IF file.kind = "invalid" THEN Raised("JSONDecodeError") ELSE Returned(file)

\* parse_arpeggio_interactions with a guard `if not isinstance(data, dict)`
\* that returns the empty result
parse_arpeggio_lenient(file) ==
    LET loaded == JsonLoad(file)
    IN  IF loaded.raised # "none" THEN loaded
        ELSE IF loaded.value.kind # "dict"
        THEN Returned([interactions |-> <<>>, interaction_types |-> <<>>])
        ELSE EntryLoop6(loaded.value.items, 1,
                        [interactions |-> <<>>, interaction_types |-> <<>>])

\* parse_arpeggio_interactions(json_file) on a file with the given content
parse_arpeggio_interactions(file) ==
    LET loaded == JsonLoad(file)
    IN  IF loaded.raised # "none" THEN loaded
        ELSE IF loaded.value.kind # "dict" THEN Raised("AttributeError")
        ELSE EntryLoop6(loaded.value.items, 1,
                        [interactions |-> <<>>, interaction_types |-> <<>>])

(***************************************************************************)
(* src/04_analyze_interactions.py: parse_arpeggio_json, extract_interactions*)
(***************************************************************************)

\* FloatOrZero with int() for float(): the fraction of an Angstrom is cut off
IntOrZero(distance) == IF distance # 0 THEN (distance \div 10) * 10 ELSE 0

\* float(distance) if distance else 0.0, in tenths of an Angstrom: a number
\* that is zero is falsy, and float() keeps the value of a number
FloatOrZero(distance) == IF distance # 0 THEN distance ELSE 0

\* the loop over the contacts of one source atom, from contact i on
RECURSIVE ContactLoop4(_, _, _, _)
ContactLoop4(parts, contacts, i, interactions) ==
    IF i > Len(contacts) THEN Returned(interactions)
    ELSE LET contact == contacts[i]
         IN  IF contact.kind # "dict"
             THEN ContactLoop4(parts, contacts, i + 1, interactions)
             ELSE LET bgn_atom == Get(contact, "bgn_atom", <<>>)
                      interaction_type == Get(contact, "type", unknown)
                      distance == Get(contact, "distance", 0)
                      bgn_parts == PathParts(bgn_atom)
                  IN  IF bgn_atom = Null
                      THEN Raised("AttributeError")
                      ELSE IF Len(bgn_parts) < 4
                      THEN ContactLoop4(parts, contacts, i + 1, interactions)
                      ELSE IF distance = NotANumber
                      THEN Raised("ValueError")
                      ELSE ContactLoop4(parts, contacts, i + 1,
                             Append(interactions,
                                    [chain1 |-> parts[1], resnum1 |-> parts[2],
                                     resname1 |-> parts[3], atom1 |-> parts[4],
                                     chain2 |-> bgn_parts[1],
                                     resnum2 |-> bgn_parts[2],
                                     resname2 |-> bgn_parts[3],
                                     atom2 |-> bgn_parts[4],
                                     type |-> interaction_type,
                                     distance |-> FloatOrZero(distance)]))

\* the loop over arpeggio_data.items(), from item i on
RECURSIVE EntryLoop4(_, _, _)
EntryLoop4(items, i, interactions) ==
    IF i > Len(items) THEN Returned(interactions)
    ELSE LET atom_key == items[i][1]
             atom_data == items[i][2]
         IN  IF atom_data.kind # "dict"
             THEN EntryLoop4(items, i + 1, interactions)
             ELSE LET parts == PathParts(atom_key)
                  IN  IF Len(parts) < 4
                      THEN EntryLoop4(items, i + 1, interactions)
                      ELSE IF "contact" \notin DOMAIN atom_data.fields
                      THEN EntryLoop4(items, i + 1, interactions)
                      ELSE LET looped ==
                                   ContactLoop4(parts,
                                                AsList(atom_data.fields.contact),
                                                1, interactions)
                           IN  IF looped.raised # "none" THEN looped
                               ELSE EntryLoop4(items, i + 1, looped.value)

\* extract_interactions(arpeggio_data)
extract_interactions(arpeggio_data) ==
    IF arpeggio_data.kind # "dict" THEN Raised("AttributeError")
    ELSE EntryLoop4(arpeggio_data.items, 1, <<>>)

\* main of step 4, lines 268-272: parse_arpeggio_json, then extract_interactions
extract_from_file(file) ==
    LET loaded == JsonLoad(file)
    IN  IF loaded.raised # "none" THEN loaded
        ELSE extract_interactions(loaded.value)

(***************************************************************************)
(* Python floats as exact fractions <<numerator, denominator>> in lowest   *)
(* terms.  A fraction whose denominator is 0 stands for a division that    *)
(* raised ZeroDivisionError; it propagates through later arithmetic.       *)
(***************************************************************************)

RECURSIVE Gcd(_, _)
Gcd(a, b) == IF b = 0 THEN a ELSE Gcd(b, a % b)

Frac(n, d) ==
    IF d = 0 THEN <<1, 0>>
    ELSE LET g == Gcd(n, d) IN IF g = 0 THEN <<0, 1>> ELSE <<n \div g, d \div g>>

Zero == <<0, 1>>

\* n / d for two ints
TrueDiv(n, d) == Frac(n, d)
FracAdd(a, b) == Frac(a[1] * b[2] + b[1] * a[2], a[2] * b[2])
FracMul(a, b) == Frac(a[1] * b[1], a[2] * b[2])
FracDiv(a, b) == Frac(a[1] * b[2], a[2] * b[1])
\* a > 0
FracPositive(a) == a[2] # 0 /\ a[1] > 0
DivisionFailed(a) == a[2] = 0

(***************************************************************************)
(* src/04_analyze_interactions.py: analyze_interactions, identify_hot_spots*)
(* A dict is the sequence of its (key, value) items in insertion order.    *)
(***************************************************************************)

\* f"{inter['chain1']}:{inter['resname1']}{inter['resnum1']}"
Res1(inter) == inter.chain1 \o <<":">> \o inter.resname1 \o inter.resnum1
\* f"{inter['chain2']}:{inter['resname2']}{inter['resnum2']}"
Res2(inter) == inter.chain2 \o <<":">> \o inter.resname2 \o inter.resnum2

HasKey(items, key) == \E j \in 1..Len(items) : items[j][1] = key

\* d[key] += 1 on a Counter or a defaultdict(int)
IncrementItem(items, key) ==
    IF HasKey(items, key)
    THEN [j \in 1..Len(items) |->
             IF items[j][1] = key THEN <<key, items[j][2] + 1>> ELSE items[j]]
    ELSE Append(items, <<key, 1>>)

\* d[key].append(value) on a defaultdict(list)
AppendItem(items, key, value) ==
    IF HasKey(items, key)
    THEN [j \in 1..Len(items) |->
             IF items[j][1] = key THEN <<key, Append(items[j][2], value)>>
             ELSE items[j]]
    ELSE Append(items, <<key, <<value>>>>)

\* Counter(inter['type'] for inter in interactions)
RECURSIVE TypeCounts(_, _, _)
TypeCounts(list, i, items) ==
    IF i > Len(list) THEN items
    ELSE TypeCounts(list, i + 1, IncrementItem(items, list[i].type))

\* lines 123-128
RECURSIVE ResiduePairCounts(_, _, _)
ResiduePairCounts(list, i, items) ==
    IF i > Len(list) THEN items
    ELSE ResiduePairCounts(list, i + 1,
             AppendItem(items, SortedPair(Res1(list[i]), Res2(list[i])),
                        list[i].type))

\* lines 131-136: residue_counts[res1] += 1; residue_counts[res2] += 1
RECURSIVE ResidueCounts(_, _, _)
ResidueCounts(list, i, items) ==
    IF i > Len(list) THEN items
    ELSE ResidueCounts(list, i + 1,
             IncrementItem(IncrementItem(items, Res1(list[i])), Res2(list[i])))

\* [inter['distance'] for inter in interactions if inter['distance'] > 0]
PositiveDistances(list) ==
    LET kept == SelectSeq(list, LAMBDA inter : inter.distance > 0)
    IN  [i \in 1..Len(kept) |-> kept[i].distance]

RECURSIVE SumOf(_)
SumOf(numbers) ==
    IF numbers = <<>> THEN 0 ELSE Head(numbers) + SumOf(Tail(numbers))

\* min(distances), max(distances) of a non-empty list
MinOf(numbers) ==
    CHOOSE x \in {numbers[i] : i \in 1..Len(numbers)} : \A y \in {numbers[i] : i \in 1..Len(numbers)} : x <= y
MaxOf(numbers) ==
    CHOOSE x \in {numbers[i] : i \in 1..Len(numbers)} : \A y \in {numbers[i] : i \in 1..Len(numbers)} : y <= x

\* analyze_interactions(interactions), distances in tenths of an Angstrom
analyze_interactions(list) ==
    LET residue_pair_counts == ResiduePairCounts(list, 1, <<>>)
        distances == PositiveDistances(list)
    IN  [total_interactions |-> Len(list),
         type_counts |-> TypeCounts(list, 1, <<>>),
         residue_pair_counts |-> residue_pair_counts,
         residue_counts |-> ResidueCounts(list, 1, <<>>),
         unique_residue_pairs |-> Len(residue_pair_counts),
         distance_stats |->
             [mean |-> IF distances # <<>>
                       THEN TrueDiv(SumOf(distances), Len(distances)) ELSE Zero,
              min |-> IF distances # <<>> THEN MinOf(distances) ELSE 0,
              max |-> IF distances # <<>> THEN MaxOf(distances) ELSE 0]]

\* sorted(hot_spots, key=lambda x: x[1], reverse=True): a stable sort, so
\* items of equal count keep the order they have in the list
RECURSIVE InsertByCount(_, _)
InsertByCount(sorted, item) ==
    IF sorted = <<>> THEN <<item>>
    ELSE IF Head(sorted)[2] >= item[2]
    THEN <<Head(sorted)>> \o InsertByCount(Tail(sorted), item)
    ELSE <<item>> \o sorted

RECURSIVE SortedByCount(_)
SortedByCount(items) ==
    IF items = <<>> THEN <<>>
    ELSE InsertByCount(SortedByCount(SubSeq(items, 1, Len(items) - 1)),
                       items[Len(items)])

\* identify_hot_spots with `count > min_interactions`
identify_hot_spots_strict(residue_counts, minimum) ==
    SortedByCount(SelectSeq(residue_counts, LAMBDA item : item[2] > minimum))

\* identify_hot_spots(residue_counts, min_interactions)
identify_hot_spots(residue_counts, minimum) ==
    SortedByCount(SelectSeq(residue_counts, LAMBDA item : item[2] >= minimum))

\* the state of the step-4 analysis before it has run, with the default of
\* --min-interactions
NoAnalysis ==
    /\ interactions4 = <<>>
    /\ min_interactions = 3
    /\ analysis = NotCalled
    /\ hot_spots = NotCalled

(***************************************************************************)
(* src/06_compare_structures.py: compare_interactions                      *)
(***************************************************************************)

\* set(list)
ToSet(list) == {list[i] : i \in 1..Len(list)}

\* RatioOrZero without its emptiness test: tp / len(s)
RatioUnguarded(tp, s) == TrueDiv(tp, Cardinality(s))

\* tp / len(s) if s else 0.0
RatioOrZero(tp, s) == IF s # {} THEN TrueDiv(tp, Cardinality(s)) ELSE Zero

\* F1 without the factor 2: precision * recall / (precision + recall)
F1WithoutFactor(precision, recall) ==
    IF FracPositive(FracAdd(precision, recall))
    THEN FracDiv(FracMul(precision, recall), FracAdd(precision, recall))
    ELSE Zero

\* 2 * precision * recall / (precision + recall) if (precision + recall) > 0 else 0.0
F1(precision, recall) ==
    IF FracPositive(FracAdd(precision, recall))
    THEN FracDiv(FracMul(FracMul(<<2, 1>>, precision), recall),
                 FracAdd(precision, recall))
    ELSE Zero

\* GroupByType assigning by_type[itype] = {interaction} instead of adding to it
RECURSIVE GroupByTypeOverwrite(_, _, _)
GroupByTypeOverwrite(interactions, i, by_type) ==
    IF i > Len(interactions) THEN by_type
    ELSE LET interaction == interactions[i]
             itype == interaction[3]
             started == IF itype \in DOMAIN by_type THEN by_type
                        ELSE by_type @@ (itype :> {})
         IN  GroupByTypeOverwrite(interactions, i + 1,
                                  [started EXCEPT ![itype] = {interaction}])

\* the loop that fills pred_by_type / exp_by_type, from element i on
RECURSIVE GroupByType(_, _, _)
GroupByType(interactions, i, by_type) ==
    IF i > Len(interactions) THEN by_type
    ELSE LET interaction == interactions[i]
             itype == interaction[3]
             started == IF itype \in DOMAIN by_type THEN by_type
                        ELSE by_type @@ (itype :> {})
         IN  GroupByType(interactions, i + 1,
                         [started EXCEPT ![itype] = @ \cup {interaction}])

\* d.get(itype, set())
GetSet(d, itype) == IF itype \in DOMAIN d THEN d[itype] ELSE {}

\* TypeMetrics with the two set differences exchanged
TypeMetricsSwapped(pred_type, exp_type) ==
    LET tp_type == Cardinality(pred_type \cap exp_type)
        fp_type == Cardinality(exp_type \ pred_type)
        fn_type == Cardinality(pred_type \ exp_type)
        prec_type == RatioOrZero(tp_type, pred_type)
        rec_type == RatioOrZero(tp_type, exp_type)
    IN  [predicted |-> Cardinality(pred_type),
         experimental |-> Cardinality(exp_type),
         tp |-> tp_type, fp |-> fp_type, fn |-> fn_type,
         precision |-> prec_type, recall |-> rec_type,
         f1 |-> F1(prec_type, rec_type)]

\* the body of the loop over all_types
TypeMetrics(pred_type, exp_type) ==
    LET tp_type == Cardinality(pred_type \cap exp_type)
        fp_type == Cardinality(pred_type \ exp_type)
        fn_type == Cardinality(exp_type \ pred_type)
        prec_type == RatioOrZero(tp_type, pred_type)
        rec_type == RatioOrZero(tp_type, exp_type)
    IN  [predicted |-> Cardinality(pred_type),
         experimental |-> Cardinality(exp_type),
         tp |-> tp_type, fp |-> fp_type, fn |-> fn_type,
         precision |-> prec_type, recall |-> rec_type,
         f1 |-> F1(prec_type, rec_type)]

\* the sequences that list every element of the set S once: the orders in
\* which iterating a Python set of str can yield its elements
Orders(S) ==
    {o \in [1..Cardinality(S) -> S] : \A x \in S : \E i \in DOMAIN o : o[i] = x}

\* OverallMetrics counting the elements of the lists instead of the sets
OverallMetricsOfLists(pred, exp) ==
    LET pred_set == ToSet(pred)
        exp_set == ToSet(exp)
        tp == Cardinality(pred_set \cap exp_set)
        fp == Len(pred) - tp
        fn == Len(exp) - tp
        precision == IF pred # <<>> THEN TrueDiv(tp, Len(pred)) ELSE Zero
        recall == IF exp # <<>> THEN TrueDiv(tp, Len(exp)) ELSE Zero
    IN  [predicted_total |-> Len(pred),
         experimental_total |-> Len(exp),
         true_positives |-> tp,
         false_positives |-> fp,
         false_negatives |-> fn,
         precision |-> precision,
         recall |-> recall,
         f1_score |-> F1(precision, recall)]

\* lines 181-191 and 237-246: the overall metrics of the two lists
OverallMetrics(pred, exp) ==
    LET pred_set == ToSet(pred)
        exp_set == ToSet(exp)
        tp == Cardinality(pred_set \cap exp_set)
        fp == Cardinality(pred_set \ exp_set)
        fn == Cardinality(exp_set \ pred_set)
        precision == RatioOrZero(tp, pred_set)
        recall == RatioOrZero(tp, exp_set)
    IN  [predicted_total |-> Cardinality(pred_set),
         experimental_total |-> Cardinality(exp_set),
         true_positives |-> tp,
         false_positives |-> fp,
         false_negatives |-> fn,
         precision |-> precision,
         recall |-> recall,
         f1_score |-> F1(precision, recall)]

\* compare_interactions(pred_interactions, exp_interactions), where
\* iterating all_types yields its elements in the order type_order.
\* A dict is the sequence of its (key, value) items in insertion order.
compare_interactions(pred, exp, type_order) ==
    LET overall == OverallMetrics(pred, exp)
        pred_by_type == GroupByType(pred, 1, <<>>)
        exp_by_type == GroupByType(exp, 1, <<>>)
        type_metrics ==
            [i \in 1..Len(type_order) |->
                <<type_order[i],
                  TypeMetrics(GetSet(pred_by_type, type_order[i]),
                              GetSet(exp_by_type, type_order[i]))>>]
        failed ==
            \/ DivisionFailed(overall.precision) \/ DivisionFailed(overall.recall)
            \/ DivisionFailed(overall.f1_score)
            \/ \E i \in 1..Len(type_metrics) :
                  \/ DivisionFailed(type_metrics[i][2].precision)
                  \/ DivisionFailed(type_metrics[i][2].recall)
                  \/ DivisionFailed(type_metrics[i][2].f1)
    IN  IF failed THEN Raised("ZeroDivisionError")
        ELSE Returned([overall |-> overall, by_type |-> type_metrics])

\* AllTypes without the experimental keys: set(pred_by_type.keys())
PredictedTypesOnly(pred, exp) == DOMAIN GroupByType(pred, 1, <<>>)

\* all_types = set(pred_by_type.keys()) | set(exp_by_type.keys())
AllTypes(pred, exp) ==
    DOMAIN GroupByType(pred, 1, <<>>) \cup DOMAIN GroupByType(exp, 1, <<>>)

(***************************************************************************)
(* Structure files and src/06_compare_structures.py: calculate_rmsd        *)
(*   a file the structure parser rejects   [kind |-> "unparseable"]        *)
(*   a parsed file  [kind |-> "structure", models |-> <<model, ...>>]      *)
(*   model = <<chain, ...>>, chain = <<residue, ...>>,                     *)
(*   residue = [resname |-> name, atoms |-> <<atom name, ...>>]            *)
(* An extracted atom is named by its place in the structure.  RMSD values  *)
(* are counted in thousandths of an Angstrom.                              *)
(***************************************************************************)

MaxResidues == 2    \* residues of a generated single-chain structure

Unparseable == [kind |-> "unparseable"]
Structure(models) == [kind |-> "structure", models |-> models]

\* the residue names of the 20 standard amino acids, of which the model
\* uses alanine
StandardNames == {"ALA"}

\* the names the library's table of amino acids holds besides: the
\* non-standard ones, of which the model uses selenomethionine
ModifiedNames == {"MSE"}

\* PDB.is_aa(residue), called with its default standard=False: the standard
\* and the non-standard amino acids of the library's table
is_aa(residue) == residue.resname \in StandardNames \cup ModifiedNames

\* an alanine with a C-alpha, an alanine without one, a selenomethionine and
\* a calcium hetero residue whose only atom is named CA
ResidueKinds ==
    { [resname |-> "ALA", atoms |-> <<"N", "CA">>],
      [resname |-> "ALA", atoms |-> <<"N">>],
      [resname |-> "MSE", atoms |-> <<"CA", "SE">>],
      [resname |-> "CA", atoms |-> <<"CA">>] }

RECURSIVE Chains(_)
Chains(n) ==
    IF n = 0 THEN {<<>>}
    ELSE Chains(n - 1) \cup
         {Append(c, r) : c \in {x \in Chains(n - 1) : Len(x) = n - 1},
                         r \in ResidueKinds}

TwoChains ==
    Structure(<< << <<[resname |-> "ALA", atoms |-> <<"N", "CA">>]>>,
                    <<[resname |-> "ALA", atoms |-> <<"N">>],
                      [resname |-> "ALA", atoms |-> <<"N", "CA">>]>> >> >>)

TwoModels ==
    Structure(<< << <<[resname |-> "ALA", atoms |-> <<"N", "CA">>]>> >>,
                 << <<[resname |-> "ALA", atoms |-> <<"N", "CA">>]>> >> >>)

StructureFiles ==
    {Structure(<< <<c>> >>) : c \in Chains(MaxResidues)}
    \cup {TwoChains, TwoModels, Unparseable}

\* what the superposition library can report for a non-empty atom list
RmsValues == {500, 1500, 2500, 3500}

\* parser.get_structure(id, file)
GetStructure(file) ==
    IF file.kind = "unparseable" THEN Raised("PDBConstructionException")
    ELSE Returned(file.models)

Atom(m, c, r, name) == [model |-> m, chain |-> c, residue |-> r, name |-> name]

\* ResidueAtoms without the test PDB.is_aa(residue)
ResidueAtomsAnyResidue(m, c, r, residue, atype) ==
    IF atype = "CA" /\ \E a \in 1..Len(residue.atoms) : residue.atoms[a] = "CA"
    THEN <<Atom(m, c, r, "CA")>>
    ELSE IF atype = "all"
    THEN [a \in 1..Len(residue.atoms) |-> Atom(m, c, r, residue.atoms[a])]
    ELSE <<>>

\* ResidueAtoms with `else` for `elif atom_type == 'all'`
ResidueAtomsElseAll(m, c, r, residue, atype) ==
    IF ~is_aa(residue) THEN <<>>
    ELSE IF atype = "CA" /\ \E a \in 1..Len(residue.atoms) : residue.atoms[a] = "CA"
    THEN <<Atom(m, c, r, "CA")>>
    ELSE [a \in 1..Len(residue.atoms) |-> Atom(m, c, r, residue.atoms[a])]

\* the atoms one residue appends to the list
ResidueAtoms(m, c, r, residue, atype) ==
    IF ~is_aa(residue) THEN <<>>
    ELSE IF atype = "CA" /\ \E a \in 1..Len(residue.atoms) : residue.atoms[a] = "CA"
    THEN <<Atom(m, c, r, "CA")>>
    ELSE IF atype = "all"
    THEN [a \in 1..Len(residue.atoms) |-> Atom(m, c, r, residue.atoms[a])]
    ELSE <<>>

\* the loops `for residue in chain`, `for chain in model`, `for model in structure`
RECURSIVE ChainAtoms(_, _, _, _, _)
ChainAtoms(m, c, chain, r, atype) ==
    IF r > Len(chain) THEN <<>>
    ELSE ResidueAtoms(m, c, r, chain[r], atype) \o ChainAtoms(m, c, chain, r + 1, atype)

RECURSIVE ModelAtoms(_, _, _, _)
ModelAtoms(m, model, c, atype) ==
    IF c > Len(model) THEN <<>>
    ELSE ChainAtoms(m, c, model[c], 1, atype) \o ModelAtoms(m, model, c + 1, atype)

RECURSIVE ExtractAtoms(_, _, _)
ExtractAtoms(models, m, atype) ==
    IF m > Len(models) THEN <<>>
    ELSE ModelAtoms(m, models[m], 1, atype) \o ExtractAtoms(models, m + 1, atype)

\* Min with max() for min()
Larger(a, b) == IF a < b THEN b ELSE a

Min(a, b) == IF a < b THEN a ELSE b

\* Prefix without the slice: the list is left as long as it was
Untruncated(atoms, n) == atoms

\* atoms[:n]
Prefix(atoms, n) == IF n >= Len(atoms) THEN atoms ELSE SubSeq(atoms, 1, n)

\* the dict of the early returns and of the except branch
ErrorResult(message) == [rmsd |-> 0, n_atoms |-> 0, error |-> message]

\* A call of calculate_rmsd: how it ended (raised, value), the exception its
\* try block caught ("none" when none was thrown) and the two atom lists it
\* handed to Superimposer.set_atoms (<<>> when it never got there).
RmsdCall(result, caught, set_atoms) ==
    [raised |-> "none", value |-> result, caught |-> caught,
     set_atoms |-> set_atoms]

\* ExceptHandler with `raise` for the return: the exception reaches the caller
ExceptReraise(e, set_atoms) ==
    [raised |-> e, caught |-> e, set_atoms |-> set_atoms]

\* lines 119-120: except Exception as e: return {... 'error': str(e)}
ExceptHandler(e, set_atoms) == RmsdCall(ErrorResult(e), e, set_atoms)

\* lines 109-111: Superimposer().set_atoms(fixed, moving) and .rms; the
\* library rejects lists of different sizes, and its decomposition either
\* yields an rms or fails numerically
Superimpose(fixed, moving) ==
    IF Len(fixed) # Len(moving) THEN {Raised("PDBException")}
    ELSE {Returned(rms) : rms \in RmsValues} \cup {Raised("LinAlgError")}

\* lines 70-120: the body of calculate_rmsd after the availability check
AlignStructures(pred_file, exp_file, atype) ==
    LET pred_structure == GetStructure(pred_file)
        exp_structure == GetStructure(exp_file)
    IN  IF pred_structure.raised # "none"
        THEN {ExceptHandler(pred_structure.raised, <<>>)}
        ELSE IF exp_structure.raised # "none"
        THEN {ExceptHandler(exp_structure.raised, <<>>)}
        ELSE LET pred_atoms == ExtractAtoms(pred_structure.value, 1, atype)
                 exp_atoms == ExtractAtoms(exp_structure.value, 1, atype)
                 n_atoms == Min(Len(pred_atoms), Len(exp_atoms))
                 pred_cut == Prefix(pred_atoms, n_atoms)
                 exp_cut == Prefix(exp_atoms, n_atoms)
             IN  IF n_atoms = 0
                 THEN {RmsdCall(ErrorResult("No matching atoms"), "none", <<>>)}
                 ELSE {IF rms.raised # "none"
                       THEN ExceptHandler(rms.raised, <<exp_cut, pred_cut>>)
                       ELSE RmsdCall([rmsd |-> rms.value, n_atoms |-> n_atoms,
                                      atom_type |-> atype],
                                     "none", <<exp_cut, pred_cut>>) :
                       rms \in Superimpose(exp_cut, pred_cut)}

\* calculate_rmsd without the availability check of lines 66-68: line 70
\* uses the name PDB, which the failed import never bound
calculate_rmsd_unchecked(pred_file, exp_file, atype, available) ==
    IF ~available
    THEN {[raised |-> "NameError", caught |-> "none", set_atoms |-> <<>>]}
    ELSE AlignStructures(pred_file, exp_file, atype)

\* calculate_rmsd(predicted_pdb, experimental_pdb, atom_type): the calls
\* that can result, one for every outcome of the superposition library
calculate_rmsd(pred_file, exp_file, atype, available) ==
    IF ~available
    THEN {RmsdCall(ErrorResult("BioPython not available"), "none", <<>>)}
    ELSE AlignStructures(pred_file, exp_file, atype)

(***************************************************************************)
(* src/06_compare_structures.py: generate_comparison_report                *)
(* The report is the record of the values its lines carry.                 *)
(***************************************************************************)

\* sorted(items, key=lambda x: x[1]['predicted'], reverse=True): a stable
\* sort, so items of equal key keep the order they have in `items`
RECURSIVE InsertByPredicted(_, _)
InsertByPredicted(sorted, item) ==
    IF sorted = <<>> THEN <<item>>
    ELSE IF Head(sorted)[2].predicted >= item[2].predicted
    THEN <<Head(sorted)>> \o InsertByPredicted(Tail(sorted), item)
    ELSE <<item>> \o sorted

RECURSIVE SortedByPredicted(_)
SortedByPredicted(items) ==
    IF items = <<>> THEN <<>>
    ELSE InsertByPredicted(SortedByPredicted(SubSeq(items, 1, Len(items) - 1)),
                           items[Len(items)])

\* the structural quality line, from ca_rmsd in thousandths of an Angstrom
StructuralQuality(ca_rmsd) ==
    IF ca_rmsd < 1000 THEN "EXCELLENT"
    ELSE IF ca_rmsd < 2000 THEN "GOOD"
    ELSE IF ca_rmsd < 3000 THEN "MODERATE"
    ELSE "POOR"

\* a > b for two fractions with positive denominators
FracGreater(a, b) == a[1] * b[2] > b[1] * a[2]

\* the agreement line, from the overall f1
AgreementQuality(f1) ==
    IF FracGreater(f1, <<4, 5>>) THEN "EXCELLENT"
    ELSE IF FracGreater(f1, <<3, 5>>) THEN "GOOD"
    ELSE IF FracGreater(f1, <<2, 5>>) THEN "MODERATE"
    ELSE "POOR"

NotWritten == [written |-> FALSE]

\* the report with the rating taken from results without error only
generate_comparison_report_error_aware(results, interaction_comparison) ==
    LET overall == interaction_comparison.overall
        rows == SortedByPredicted(interaction_comparison.by_type)
        ca_rmsd == IF "error" \notin DOMAIN results["CA"]
                   THEN results["CA"].rmsd ELSE 999000
    IN  [written |-> TRUE,
         ca_line |-> IF "error" \notin DOMAIN results["CA"]
                     THEN <<results["CA"].rmsd, results["CA"].n_atoms>>
                     ELSE <<>>,
         all_line |-> IF "error" \notin DOMAIN results["all"]
                      THEN <<results["all"].rmsd, results["all"].n_atoms>>
                      ELSE <<>>,
         quality |-> StructuralQuality(ca_rmsd),
         overall |-> overall,
         agreement |-> AgreementQuality(overall.f1_score),
         rows |-> [i \in 1..Len(rows) |->
                      [itype |-> rows[i][1],
                       predicted |-> rows[i][2].predicted,
                       experimental |-> rows[i][2].experimental,
                       tp |-> rows[i][2].tp,
                       precision |-> rows[i][2].precision,
                       recall |-> rows[i][2].recall,
                       f1 |-> rows[i][2].f1]]]

\* generate_comparison_report(rmsd_results, interaction_comparison, output_file)
generate_comparison_report(results, interaction_comparison) ==
    LET overall == interaction_comparison.overall
        rows == SortedByPredicted(interaction_comparison.by_type)
        ca_rmsd == IF "rmsd" \in DOMAIN results["CA"]
                   THEN results["CA"].rmsd ELSE 999000
    IN  [written |-> TRUE,
         ca_line |-> IF "error" \notin DOMAIN results["CA"]
                     THEN <<results["CA"].rmsd, results["CA"].n_atoms>>
                     ELSE <<>>,
         all_line |-> IF "error" \notin DOMAIN results["all"]
                      THEN <<results["all"].rmsd, results["all"].n_atoms>>
                      ELSE <<>>,
         quality |-> StructuralQuality(ca_rmsd),
         overall |-> overall,
         agreement |-> AgreementQuality(overall.f1_score),
         rows |-> [i \in 1..Len(rows) |->
                      [itype |-> rows[i][1],
                       predicted |-> rows[i][2].predicted,
                       experimental |-> rows[i][2].experimental,
                       tp |-> rows[i][2].tp,
                       precision |-> rows[i][2].precision,
                       recall |-> rows[i][2].recall,
                       f1 |-> rows[i][2].f1]]]

(***************************************************************************)
(* SpecParse: the two parsers applied to a contact-map file                *)
(***************************************************************************)

InitParse ==
    /\ pc = "parse"
    /\ \/ HoldsContactMap(data, <<>>, {}, MaxEntries, MaxContacts, AtomDataTable)
       \/ data \in BrokenFiles
    /\ parsed6 = NotCalled
    /\ parsed4 = NotCalled
    /\ BIOPYTHON_AVAILABLE = TRUE
    /\ predicted_pdb = Idle /\ experimental_pdb = Idle
    /\ atom_type = Idle /\ rmsd = NotCalled /\ rmsd_results = <<>>
    /\ predicted_json = Idle /\ experimental_json = Idle
    /\ pred_interactions = <<>> /\ exp_interactions = <<>>
    /\ comparison = NotCalled /\ report = NotWritten /\ raised = "none"
    /\ NoAnalysis

\* step 6 parses the file
ParseStep6 ==
    /\ pc = "parse"
    /\ parsed6 = NotCalled
    /\ parsed6' = parse_arpeggio_interactions(data)
    /\ UNCHANGED <<pc, BIOPYTHON_AVAILABLE, predicted_pdb, experimental_pdb,
                   atom_type, rmsd, rmsd_results, data, parsed4,
                   predicted_json, experimental_json, pred_interactions,
                   exp_interactions, comparison, report, raised,
                   interactions4, min_interactions, analysis, hot_spots>>

\* step 4 parses the file
ParseStep4 ==
    /\ pc = "parse"
    /\ parsed4 = NotCalled
    /\ parsed4' = extract_from_file(data)
    /\ UNCHANGED <<pc, BIOPYTHON_AVAILABLE, predicted_pdb, experimental_pdb,
                   atom_type, rmsd, rmsd_results, data, parsed6,
                   predicted_json, experimental_json, pred_interactions,
                   exp_interactions, comparison, report, raised,
                   interactions4, min_interactions, analysis, hot_spots>>

NextParse == ParseStep6 \/ ParseStep4

SpecParse == InitParse /\ [][NextParse]_vars

(***************************************************************************)
(* SpecFields: the two parsers applied to contact maps whose contact       *)
(* objects hold field values of any JSON type                              *)
(***************************************************************************)

FieldObjects ==
    { JObject([bgn_atom |-> PathB20, type |-> hbond, distance |-> 32]),
      JObject([bgn_atom |-> PathA9]),
      JObject([bgn_atom |-> PathShort, type |-> vdw, distance |-> 32]),
      JObject([bgn_atom |-> PathB20, type |-> hbond, distance |-> NotANumber]),
      JObject([bgn_atom |-> PathA10, type |-> Unhashable, distance |-> 32]),
      JObject([bgn_atom |-> Null, type |-> hbond]),
      JStr(hbond) }

FieldDataTable == [c \in 0..MaxContacts |-> AtomDataWith(FieldObjects, c)]

InitFields ==
    /\ pc = "parse"
    /\ \/ HoldsContactMap(data, <<>>, {}, MaxEntries, MaxContacts, FieldDataTable)
       \/ data \in BrokenFiles
    /\ parsed6 = NotCalled
    /\ parsed4 = NotCalled
    /\ BIOPYTHON_AVAILABLE = TRUE
    /\ predicted_pdb = Idle /\ experimental_pdb = Idle
    /\ atom_type = Idle /\ rmsd = NotCalled /\ rmsd_results = <<>>
    /\ predicted_json = Idle /\ experimental_json = Idle
    /\ pred_interactions = <<>> /\ exp_interactions = <<>>
    /\ comparison = NotCalled /\ report = NotWritten /\ raised = "none"
    /\ NoAnalysis

SpecFields == InitFields /\ [][NextParse]_vars

(***************************************************************************)
(* SpecCompare: compare_interactions and the report on two lists of        *)
(* interaction triples                                                     *)
(***************************************************************************)

MaxLen == 3    \* length of an interaction list

ResA10 == ResidueId(PathParts(PathA10))
ResB20 == ResidueId(PathParts(PathB20))
ResA11 == <<"A", ":", "A", "L", "A", "1", "1">>
ResB21 == <<"B", ":", "G", "L", "Y", "2", "1">>

SampleTriples ==
    { <<ResA10, ResB20, hbond>>, <<ResA11, ResB21, vdw>>, <<ResA10, ResB20, vdw>> }

InteractionLists == UNION {[1..n -> SampleTriples] : n \in 0..MaxLen}

\* two dicts main can hand to the report: both alignments done, both degraded
SampleRmsdResults ==
    { ("CA" :> [rmsd |-> 1500, n_atoms |-> 2, atom_type |-> "CA"]) @@
      ("all" :> [rmsd |-> 2500, n_atoms |-> 4, atom_type |-> "all"]),
      ("CA" :> ErrorResult("No matching atoms")) @@
      ("all" :> ErrorResult("No matching atoms")) }

InitCompare ==
    /\ pc = "compare"
    /\ pred_interactions \in InteractionLists
    /\ exp_interactions \in InteractionLists
    /\ rmsd_results \in SampleRmsdResults
    /\ comparison = NotCalled
    /\ report = NotWritten
    /\ BIOPYTHON_AVAILABLE = TRUE
    /\ predicted_pdb = Idle /\ experimental_pdb = Idle
    /\ atom_type = Idle /\ rmsd = NotCalled
    /\ data = Idle /\ parsed6 = NotCalled /\ parsed4 = NotCalled
    /\ predicted_json = Idle /\ experimental_json = Idle
    /\ raised = "none"
    /\ NoAnalysis

\* main, line 396: comparison = compare_interactions(pred, exp)
Compare ==
    /\ pc = "compare"
    /\ \E type_order \in Orders(AllTypes(pred_interactions, exp_interactions)) :
          LET result == compare_interactions(pred_interactions,
                                             exp_interactions, type_order)
          IN  /\ comparison' = result
              /\ raised' = result.raised
              /\ pc' = IF result.raised = "none" THEN "report" ELSE "aborted"
    /\ UNCHANGED <<BIOPYTHON_AVAILABLE, predicted_pdb, experimental_pdb,
                   atom_type, rmsd, rmsd_results, data, parsed6, parsed4,
                   predicted_json, experimental_json, pred_interactions,
                   exp_interactions, report,
                   interactions4, min_interactions, analysis, hot_spots>>

\* main, lines 404-406: generate_comparison_report(rmsd_results, comparison, ..)
WriteReport ==
    /\ pc = "report"
    /\ report' = generate_comparison_report(rmsd_results, comparison.value)
    /\ pc' = "done"
    /\ UNCHANGED <<BIOPYTHON_AVAILABLE, predicted_pdb, experimental_pdb,
                   atom_type, rmsd, rmsd_results, data, parsed6, parsed4,
                   predicted_json, experimental_json, pred_interactions,
                   exp_interactions, comparison, raised,
                   interactions4, min_interactions, analysis, hot_spots>>

NextCompare == Compare \/ WriteReport

SpecCompare == InitCompare /\ [][NextCompare]_vars

(***************************************************************************)
(* SpecRmsd: one call of calculate_rmsd                                    *)
(***************************************************************************)

AtomTypes == {"CA", "all", "backbone"}

InitRmsd ==
    /\ pc = "rmsd"
    /\ BIOPYTHON_AVAILABLE \in BOOLEAN
    /\ predicted_pdb \in StructureFiles
    /\ experimental_pdb \in StructureFiles
    /\ atom_type \in AtomTypes
    /\ rmsd = NotCalled
    /\ rmsd_results = <<>>
    /\ data = Idle /\ parsed6 = NotCalled /\ parsed4 = NotCalled
    /\ predicted_json = Idle /\ experimental_json = Idle
    /\ pred_interactions = <<>> /\ exp_interactions = <<>>
    /\ comparison = NotCalled /\ report = NotWritten /\ raised = "none"
    /\ NoAnalysis

CalculateRmsd ==
    /\ pc = "rmsd"
    /\ \E call \in calculate_rmsd(predicted_pdb, experimental_pdb, atom_type,
                                  BIOPYTHON_AVAILABLE) :
          rmsd' = call
    /\ pc' = "done"
    /\ UNCHANGED <<BIOPYTHON_AVAILABLE, predicted_pdb, experimental_pdb,
                   atom_type, rmsd_results, data, parsed6, parsed4,
                   predicted_json, experimental_json, pred_interactions,
                   exp_interactions, comparison, report, raised,
                   interactions4, min_interactions, analysis, hot_spots>>

NextRmsd == CalculateRmsd

SpecRmsd == InitRmsd /\ [][NextRmsd]_vars

(***************************************************************************)
(* Spec: main of src/06_compare_structures.py, from line 368 on (the four  *)
(* input files exist)                                                      *)
(***************************************************************************)

\* the scenario map, and a map with a repeated residue pair in both directions
MapOne ==
    JMap(<< <<PathA10,
              JObject([contact |->
                  JList(<<JObject([bgn_atom |-> PathB20, type |-> hbond,
                                   distance |-> 32])>>)])>> >>)

MapTwo ==
    JMap(<< <<PathA10,
              JObject([contact |->
                  JList(<<JObject([bgn_atom |-> PathB20, type |-> hbond,
                                   distance |-> 32]),
                          JObject([bgn_atom |-> PathA9, distance |-> 0])>>)])>>,
            <<PathShort, JObject([contact |-> JList(<<>>)])>>,
            <<PathB20,
              JObject([contact |-> JObject([bgn_atom |-> PathA10,
                                            type |-> hbond])])>> >>)

MainJsonFiles == {InvalidJson, JList(<<>>), MapOne, MapTwo}

MainStructureFiles ==
    {Unparseable, Structure(<< << <<[resname |-> "ALA", atoms |-> <<"N">>]>> >> >>),
     TwoChains}

Init ==
    /\ pc = "rmsd_ca"
    /\ BIOPYTHON_AVAILABLE \in BOOLEAN
    /\ predicted_pdb \in MainStructureFiles
    /\ experimental_pdb \in MainStructureFiles
    /\ predicted_json \in MainJsonFiles
    /\ experimental_json \in MainJsonFiles
    /\ atom_type = Idle /\ rmsd = NotCalled /\ rmsd_results = <<>>
    /\ data = Idle /\ parsed6 = NotCalled /\ parsed4 = NotCalled
    /\ pred_interactions = <<>> /\ exp_interactions = <<>>
    /\ comparison = NotCalled /\ report = NotWritten /\ raised = "none"
    /\ NoAnalysis

\* lines 372-373
AlignCA ==
    /\ pc = "rmsd_ca"
    /\ \E call \in calculate_rmsd(predicted_pdb, experimental_pdb, "CA",
                                  BIOPYTHON_AVAILABLE) :
          /\ rmsd' = call
          /\ raised' = call.raised
          /\ IF call.raised = "none"
             THEN /\ rmsd_results' = ("CA" :> call.value)
                  /\ pc' = "rmsd_all"
             ELSE /\ rmsd_results' = rmsd_results
                  /\ pc' = "aborted"
    /\ atom_type' = "CA"
    /\ UNCHANGED <<BIOPYTHON_AVAILABLE, predicted_pdb, experimental_pdb,
                   data, parsed6, parsed4, predicted_json, experimental_json,
                   pred_interactions, exp_interactions, comparison, report,
                   interactions4, min_interactions, analysis, hot_spots>>

\* lines 378-379
AlignAll ==
    /\ pc = "rmsd_all"
    /\ \E call \in calculate_rmsd(predicted_pdb, experimental_pdb, "all",
                                  BIOPYTHON_AVAILABLE) :
          /\ rmsd' = call
          /\ raised' = call.raised
          /\ IF call.raised = "none"
             THEN /\ rmsd_results' = rmsd_results @@ ("all" :> call.value)
                  /\ pc' = "parse_predicted"
             ELSE /\ rmsd_results' = rmsd_results
                  /\ pc' = "aborted"
    /\ atom_type' = "all"
    /\ UNCHANGED <<BIOPYTHON_AVAILABLE, predicted_pdb, experimental_pdb,
                   data, parsed6, parsed4, predicted_json, experimental_json,
                   pred_interactions, exp_interactions, comparison, report,
                   interactions4, min_interactions, analysis, hot_spots>>

\* line 387; an exception of the parser leaves main
ParsePredicted ==
    /\ pc = "parse_predicted"
    /\ LET result == parse_arpeggio_interactions(predicted_json)
       IN  /\ data' = predicted_json
           /\ parsed6' = result
           /\ raised' = result.raised
           /\ IF result.raised = "none"
              THEN /\ pred_interactions' = result.value.interactions
                   /\ pc' = "parse_experimental"
              ELSE /\ pred_interactions' = pred_interactions
                   /\ pc' = "aborted"
    /\ UNCHANGED <<BIOPYTHON_AVAILABLE, predicted_pdb, experimental_pdb,
                   atom_type, rmsd, rmsd_results, parsed4, predicted_json,
                   experimental_json, exp_interactions, comparison, report,
                   interactions4, min_interactions, analysis, hot_spots>>

\* line 391; an exception of the parser leaves main
ParseExperimental ==
    /\ pc = "parse_experimental"
    /\ LET result == parse_arpeggio_interactions(experimental_json)
       IN  /\ data' = experimental_json
           /\ parsed6' = result
           /\ raised' = result.raised
           /\ IF result.raised = "none"
              THEN /\ exp_interactions' = result.value.interactions
                   /\ pc' = "compare"
              ELSE /\ exp_interactions' = exp_interactions
                   /\ pc' = "aborted"
    /\ UNCHANGED <<BIOPYTHON_AVAILABLE, predicted_pdb, experimental_pdb,
                   atom_type, rmsd, rmsd_results, parsed4, predicted_json,
                   experimental_json, pred_interactions, comparison, report,
                   interactions4, min_interactions, analysis, hot_spots>>

Next ==
    \/ AlignCA
    \/ AlignAll
    \/ ParsePredicted
    \/ ParseExperimental
    \/ Compare
    \/ WriteReport

Spec == Init /\ [][Next]_vars

(***************************************************************************)
(* SpecHotSpots: the analysis of step 4 on a list of extracted records     *)
(***************************************************************************)

Record(parts1, parts2, itype, distance) ==
    [chain1 |-> parts1[1], resnum1 |-> parts1[2], resname1 |-> parts1[3],
     atom1 |-> parts1[4],
     chain2 |-> parts2[1], resnum2 |-> parts2[2], resname2 |-> parts2[3],
     atom2 |-> parts2[4],
     type |-> itype, distance |-> distance]

\* a contact in both directions, a contact between two atoms of one
\* residue, and a contact of a third residue
SampleRecords ==
    { Record(PathParts(PathA10), PathParts(PathB20), hbond, 32),
      Record(PathParts(PathB20), PathParts(PathA10), hbond, 0),
      Record(PathParts(PathA10), PathParts(PathA10), vdw, 28),
      Record(PathParts(PathA9), PathParts(PathB20), unknown, 40) }

RECURSIVE RecordLists(_)
RecordLists(n) ==
    IF n = 0 THEN {<<>>}
    ELSE RecordLists(n - 1) \cup
         {Append(l, r) : l \in {x \in RecordLists(n - 1) : Len(x) = n - 1},
                         r \in SampleRecords}

\* values of --min-interactions, whose default is 3
MinInteractionsChoices == 1..3

InitHotSpots ==
    /\ pc = "analyze"
    /\ interactions4 \in RecordLists(MaxLen)
    /\ min_interactions \in MinInteractionsChoices
    /\ analysis = NotCalled
    /\ hot_spots = NotCalled
    /\ BIOPYTHON_AVAILABLE = TRUE
    /\ predicted_pdb = Idle /\ experimental_pdb = Idle /\ atom_type = Idle
    /\ rmsd = NotCalled /\ rmsd_results = <<>>
    /\ data = Idle /\ parsed6 = NotCalled /\ parsed4 = NotCalled
    /\ predicted_json = Idle /\ experimental_json = Idle
    /\ pred_interactions = <<>> /\ exp_interactions = <<>>
    /\ comparison = NotCalled /\ report = NotWritten /\ raised = "none"

\* step 4 main, lines 277 and 293-298: analyze_interactions, then
\* identify_hot_spots when --hot-spots is given
AnalyzeHotSpots ==
    /\ pc = "analyze"
    /\ LET result == analyze_interactions(interactions4)
       IN  /\ analysis' = Returned(result)
           /\ \E flag \in BOOLEAN :
                 hot_spots' =
                     IF flag
                     THEN Returned(identify_hot_spots(result.residue_counts,
                                                      min_interactions))
                     ELSE NotCalled
    /\ pc' = "done"
    /\ UNCHANGED <<BIOPYTHON_AVAILABLE, predicted_pdb, experimental_pdb,
                   atom_type, rmsd, rmsd_results, data, parsed6, parsed4,
                   predicted_json, experimental_json, pred_interactions,
                   exp_interactions, comparison, report, raised,
                   interactions4, min_interactions>>

NextHotSpots == AnalyzeHotSpots

SpecHotSpots == InitHotSpots /\ [][NextHotSpots]_vars

(***************************************************************************)
(* Properties of compare_interactions (SpecCompare)                        *)
(***************************************************************************)

Compared == pc \in {"report", "done", "aborted"}

InList(t, list) == \E i \in 1..Len(list) : list[i] = t

\* the distinct triples of a list
DistinctTriples(list) == {t \in SampleTriples : InList(t, list)}

\* the fraction f is n / d
IsRatio(f, n, d) == d # 0 /\ f[2] # 0 /\ f[1] * d = n * f[2]

\* f is 2pr / (p + r), or 0 when p + r is 0
IsF1(f, p, r) ==
    IF p[1] = 0 /\ r[1] = 0 THEN f = Zero
    ELSE /\ f[2] # 0
         /\ f[1] * (p[1] * r[2] + r[1] * p[2]) = 2 * p[1] * r[1] * f[2]

\* C1: compare_interactions returns tp = |P \cap E|, fp = |P \ E|,
\* fn = |E \ P| for the sets P, E of distinct triples of the two lists,
\* precision = tp/|P| (0 when P is empty), recall = tp/|E| (0 when E is
\* empty), f1 = 2*precision*recall/(precision+recall) (0 when the sum is 0),
\* and never fails on a division by zero; for P = {t1}, E = {t1, t2} it
\* returns tp 1, fp 0, fn 1, precision 1, recall 1/2, f1 0.667 +- 0.001.
C1_OverallMetrics ==
    Compared =>
        /\ comparison.raised = "none"
        /\ LET o == comparison.value.overall
               P == DistinctTriples(pred_interactions)
               E == DistinctTriples(exp_interactions)
               tp == Cardinality(P \cap E)
           IN  /\ o.true_positives = tp
               /\ o.false_positives = Cardinality(P \ E)
               /\ o.false_negatives = Cardinality(E \ P)
               /\ IF P = {} THEN o.precision = Zero
                  ELSE IsRatio(o.precision, tp, Cardinality(P))
               /\ IF E = {} THEN o.recall = Zero
                  ELSE IsRatio(o.recall, tp, Cardinality(E))
               /\ IsF1(o.f1_score, o.precision, o.recall)
               /\ (/\ P = {<<ResA10, ResB20, hbond>>}
                   /\ E = {<<ResA10, ResB20, hbond>>, <<ResA11, ResB21, vdw>>})
                  => /\ o.true_positives = 1 /\ o.false_positives = 0
                     /\ o.false_negatives = 1
                     /\ o.precision = <<1, 1>> /\ o.recall = <<1, 2>>
                     /\ 666 * o.f1_score[2] <= 1000 * o.f1_score[1]
                     /\ 1000 * o.f1_score[1] <= 668 * o.f1_score[2]

\* an empty predicted list compared with a non-empty experimental list
C1_EmptyPredicted ==
    /\ Compared
    /\ pred_interactions = <<>>
    /\ exp_interactions # <<>>
    /\ comparison.raised = "none"
    /\ comparison.value.overall.precision = Zero
    /\ comparison.value.overall.f1_score = Zero

RECURSIVE SumField(_, _)
SumField(items, field) ==
    IF items = <<>> THEN 0
    ELSE Head(items)[2][field] + SumField(Tail(items), field)

\* C2: the per-type tp, fp and fn, summed over the keys of by_type, equal
\* the overall true_positives, false_positives and false_negatives.
C2_PerTypeSums ==
    (Compared /\ comparison.raised = "none") =>
        LET o == comparison.value.overall
            by_type == comparison.value.by_type
        IN  /\ \A i, j \in 1..Len(by_type) : by_type[i][1] = by_type[j][1] => i = j
            /\ SumField(by_type, "tp") = o.true_positives
            /\ SumField(by_type, "fp") = o.false_positives
            /\ SumField(by_type, "fn") = o.false_negatives

\* two types, two triples of one type on both sides, and every count positive
C2_TwoTypesAllCounts ==
    /\ Compared /\ comparison.raised = "none"
    /\ Len(comparison.value.by_type) = 2
    /\ comparison.value.overall.true_positives = 2
    /\ comparison.value.overall.false_positives = 1
    /\ \E i \in 1..2 : comparison.value.by_type[i][2].tp = 2

\* the elements of a set, once each, in a fixed order
Enumerate(S) == CHOOSE q \in Orders(S) : TRUE

\* C3: the result depends only on the sets of distinct triples: it equals,
\* in every overall field and every per-type entry, the result for the two
\* lists that hold each distinct triple once in a fixed order, so repeats
\* and reorderings of either list change nothing.
C3_DependsOnSetsOnly ==
    (Compared /\ comparison.raised = "none") =>
        LET by_type == comparison.value.by_type
            type_order == [i \in 1..Len(by_type) |-> by_type[i][1]]
            canonical ==
                compare_interactions(
                    Enumerate(DistinctTriples(pred_interactions)),
                    Enumerate(DistinctTriples(exp_interactions)),
                    type_order)
        IN  /\ canonical.raised = "none"
            /\ canonical.value.overall = comparison.value.overall
            /\ canonical.value.by_type = by_type

\* both lists repeat an element and hold two distinct triples
C3_RepeatedElements ==
    /\ Compared /\ comparison.raised = "none"
    /\ Len(pred_interactions) = 3
    /\ Len(exp_interactions) = 3
    /\ pred_interactions[1] = pred_interactions[3]
    /\ exp_interactions[2] = exp_interactions[3]
    /\ comparison.value.overall.predicted_total = 2
    /\ comparison.value.overall.experimental_total = 2

(***************************************************************************)
(* Properties of the contact-map parsers (SpecParse)                       *)
(***************************************************************************)

Parsed6 == parsed6.raised = "none"
Parsed4 == parsed4.raised = "none"

\* the contact objects of an entry value, a single object counting as a
\* list of one
ContactsOf(atom_data) ==
    IF atom_data.kind = "dict" /\ "contact" \in DOMAIN atom_data.fields
    THEN IF atom_data.fields.contact.kind = "list"
         THEN atom_data.fields.contact.elems
         ELSE <<atom_data.fields.contact>>
    ELSE <<>>

\* the path splits into at least 4 segments
WellFormed(path) == Len(PathParts(path)) >= 4

\* the (entry, contact) positions of the map whose source key and bgn_atom
\* are both well formed
ValidPairs ==
    {p \in UNION {{<<i, j>> : j \in 1..Len(ContactsOf(data.items[i][2]))} :
                  i \in 1..Len(data.items)} :
        LET contact == ContactsOf(data.items[p[1]][2])[p[2]]
        IN  /\ WellFormed(data.items[p[1]][1])
            /\ contact.kind = "dict"
            /\ "bgn_atom" \in DOMAIN contact.fields
            /\ WellFormed(contact.fields.bgn_atom)}

ContactAt(p) == ContactsOf(data.items[p[1]][2])[p[2]]
SourceId(p) == ResidueId(PathParts(data.items[p[1]][1]))
PartnerId(p) == ResidueId(PathParts(ContactAt(p).fields.bgn_atom))
TypeAt(p) ==
    IF "type" \in DOMAIN ContactAt(p).fields THEN ContactAt(p).fields.type
    ELSE unknown
DistanceAt(p) ==
    IF "distance" \in DOMAIN ContactAt(p).fields
    THEN ContactAt(p).fields.distance ELSE 0

\* the two residue ids of a valid pair in lexicographic order
PairAt(p) ==
    CHOOSE x \in {<<SourceId(p), PartnerId(p)>>, <<PartnerId(p), SourceId(p)>>} :
        ~StrLess(x[2], x[1])

\* the position of a pair among the valid pairs, in map order
Rank(valid, p) ==
    Cardinality({q \in valid :
                    q[1] < p[1] \/ (q[1] = p[1] /\ q[2] <= p[2])})

IsMapping(file) == file.kind = "dict"

\* C11: a contact whose bgn_atom is absent or is no atom path of at least 4
\* segments is skipped: on every mapping the parse ends without an
\* exception and emits every contact that has two well-formed paths.
C11_MalformedPartnerSkipped ==
    LET valid == ValidPairs IN
    /\ (parsed6 # NotCalled /\ IsMapping(data)) =>
          /\ parsed6.raised = "none"
          /\ Len(parsed6.value.interactions) = Cardinality(valid)
          /\ \A p \in valid :
                parsed6.value.interactions[Rank(valid, p)]
                    = PairAt(p) \o <<TypeAt(p)>>
    /\ (parsed4 # NotCalled /\ IsMapping(data)) =>
          /\ parsed4.raised = "none"
          /\ Len(parsed4.value) = Cardinality(valid)

\* the number of segments between the slashes of a path, leading and
\* trailing slashes apart
SegmentCount(path) ==
    LET inner == {i \in 1..Len(path) : path[i] # "/"}
    IN  IF inner = {} THEN 1
        ELSE LET lo == CHOOSE i \in inner : \A j \in inner : i <= j
                 hi == CHOOSE i \in inner : \A j \in inner : j <= i
             IN  1 + Cardinality({i \in lo..hi : path[i] = "/"})

\* the mapping without its entries whose key has fewer than 4 segments
WithoutShortKeys(file) ==
    JMap(SelectSeq(file.items, LAMBDA entry : SegmentCount(entry[1]) >= 4))

\* C12: an entry whose key has fewer than 4 segments is skipped without
\* error: each parser ends on a mapping exactly as it ends on the mapping
\* without these entries, with the same interactions in the same order.
C12_ShortKeySkipped ==
    /\ (parsed6 # NotCalled /\ IsMapping(data)) =>
          parsed6 = parse_arpeggio_interactions(WithoutShortKeys(data))
    /\ (parsed4 # NotCalled /\ IsMapping(data)) =>
          parsed4 = extract_from_file(WithoutShortKeys(data))
    /\ (parsed6 # NotCalled /\ IsMapping(data)
          /\ WithoutShortKeys(data) = JMap(<<>>)) =>
          parsed6 = Returned([interactions |-> <<>>, interaction_types |-> <<>>])

\* a map with a two-segment key whose entry holds a well-formed contact and
\* one valid entry: one interaction is parsed
C12_ShortKeyWithContact ==
    /\ Parsed6 /\ Parsed4
    /\ Len(data.items) = 2
    /\ data.items[1][1] = PathShort
    /\ Len(ContactsOf(data.items[1][2])) = 1
    /\ ContactsOf(data.items[1][2])[1] =
           JObject([bgn_atom |-> PathB20, type |-> hbond, distance |-> 32])
    /\ data.items[2][1] = PathA10
    /\ Len(parsed6.value.interactions) = 1
    /\ Len(parsed4.value) = 1

\* the file holds JSON whose top-level value is a list, a string or a number
TopLevelNotMapping(file) == file.kind \in {"list", "str", "number"}

\* C13: parsing a file whose top-level value is not a mapping fails with an
\* exception that reaches the caller; no interaction list, empty or not, is
\* returned.
C13_TopLevelNotMappingFails ==
    /\ (parsed6 # NotCalled /\ TopLevelNotMapping(data)) =>
          /\ parsed6.raised = "AttributeError"
          /\ "value" \notin DOMAIN parsed6
    /\ (parsed4 # NotCalled /\ TopLevelNotMapping(data)) =>
          /\ parsed4.raised = "AttributeError"
          /\ "value" \notin DOMAIN parsed4

\* both parsers were called on a file holding a list
C13_ListParsed ==
    /\ data = JList(<<>>)
    /\ parsed6.raised = "AttributeError"
    /\ parsed4.raised = "AttributeError"

(***************************************************************************)
(* Properties of calculate_rmsd (SpecRmsd)                                 *)
(***************************************************************************)

BothParse ==
    predicted_pdb.kind = "structure" /\ experimental_pdb.kind = "structure"

\* how many atoms of a structure the atom type selects: one per amino acid
\* with a CA atom for "CA", every atom of every amino acid for "all", none
\* for any other type
SelectedCount(file, atype) ==
    Cardinality(
      {x \in UNION {UNION {UNION {{<<m, c, r, a>> :
                                     a \in 1..Len(file.models[m][c][r].atoms)} :
                                  r \in 1..Len(file.models[m][c])} :
                           c \in 1..Len(file.models[m])} :
                    m \in 1..Len(file.models)} :
          LET residue == file.models[x[1]][x[2]][x[3]]
          IN  /\ is_aa(residue)
              /\ \/ atype = "all"
                 \/ atype = "CA" /\ residue.atoms[x[4]] = "CA"})

ZeroMatched ==
    /\ BothParse
    /\ \/ SelectedCount(predicted_pdb, atom_type) = 0
       \/ SelectedCount(experimental_pdb, atom_type) = 0

RmsdDone == pc = "done" /\ BIOPYTHON_AVAILABLE /\ rmsd # NotCalled

\* C6: when the shorter of the two extracted atom lists is empty,
\* calculate_rmsd raises nothing and returns rmsd 0.0, n_atoms 0 and an
\* error field, without handing any atoms to the superposition.
C6_ZeroMatchedAtoms ==
    (RmsdDone /\ ZeroMatched) =>
        /\ rmsd.raised = "none"
        /\ rmsd.caught = "none"
        /\ rmsd.value.rmsd = 0
        /\ rmsd.value.n_atoms = 0
        /\ "error" \in DOMAIN rmsd.value
        /\ rmsd.value.error = "No matching atoms"
        /\ rmsd.set_atoms = <<>>

\* one structure has atoms of the type and the other has none
C6_OneSideEmpty ==
    /\ RmsdDone /\ BothParse
    /\ SelectedCount(predicted_pdb, atom_type) > 0
    /\ SelectedCount(experimental_pdb, atom_type) = 0
    /\ rmsd.raised = "none"
    /\ rmsd.value = [rmsd |-> 0, n_atoms |-> 0, error |-> "No matching atoms"]

ParseFailed == parsed6.raised \notin {"none", "not called"}

C9_ParseFailureAbortsOnlyItsPipeline ==
    /\ (pc = "aborted" /\ ParseFailed /\ DOMAIN rmsd_results = {"CA", "all"}) =>
          report.written
    /\ (pc = "aborted" /\ ~BothParse) => ParseFailed
    /\ (pc = "done" /\ ~BothParse) =>
          /\ comparison.raised = "none"
          /\ report.written
          /\ report.overall = comparison.value.overall

(***************************************************************************)
(* Order of the per-type rows (SpecCompare)                                *)
(***************************************************************************)

\* C10: the per-type rows of the report are in descending order of predicted
\* count, and rows of equal predicted count are in ascending order of type
\* name, whatever the order in which the types were met.
C10_RowsOrdered ==
    (pc = "done" /\ report.written) =>
        \A i, j \in 1..Len(report.rows) :
            i < j =>
                \/ report.rows[i].predicted > report.rows[j].predicted
                \/ /\ report.rows[i].predicted = report.rows[j].predicted
                   /\ StrLess(report.rows[i].itype, report.rows[j].itype)

(***************************************************************************)
(* Truncation and extraction in calculate_rmsd (SpecRmsd)                  *)
(***************************************************************************)

\* n = min(len(predicted), len(experimental)) of the selected atoms
MatchedCount ==
    IF SelectedCount(predicted_pdb, atom_type)
         < SelectedCount(experimental_pdb, atom_type)
    THEN SelectedCount(predicted_pdb, atom_type)
    ELSE SelectedCount(experimental_pdb, atom_type)

\* C14: when at least one atom is matched, the superposition receives the
\* first n atoms of the experimental list and the first n atoms of the
\* predicted list, n the smaller of the two lengths, atom i facing atom i,
\* and a successful result reports n_atoms = n.
C14_TruncatedToShorter ==
    (RmsdDone /\ BothParse /\ ~ZeroMatched) =>
        LET pred_atoms == ExtractAtoms(predicted_pdb.models, 1, atom_type)
            exp_atoms == ExtractAtoms(experimental_pdb.models, 1, atom_type)
            n == MatchedCount
        IN  /\ Len(rmsd.set_atoms) = 2
            /\ Len(rmsd.set_atoms[1]) = n
            /\ Len(rmsd.set_atoms[2]) = n
            /\ \A i \in 1..n :
                  /\ rmsd.set_atoms[1][i] = exp_atoms[i]
                  /\ rmsd.set_atoms[2][i] = pred_atoms[i]
            /\ rmsd.caught = "none" =>
                  /\ rmsd.value.n_atoms = n
                  /\ "error" \notin DOMAIN rmsd.value

\* the predicted structure has more atoms of the type than the experimental
\* one, and the alignment succeeded on the shorter length
C14_PredictedLonger ==
    /\ RmsdDone /\ BothParse
    /\ SelectedCount(experimental_pdb, atom_type) > 0
    /\ SelectedCount(predicted_pdb, atom_type)
         > SelectedCount(experimental_pdb, atom_type)
    /\ rmsd.caught = "none"
    /\ rmsd.value.n_atoms = SelectedCount(experimental_pdb, atom_type)
    /\ Len(rmsd.set_atoms[2]) = rmsd.value.n_atoms

\* the residue is one of the 20 standard amino acids
IsStandard(residue) == residue.resname \in StandardNames

\* the atom positions <<model, chain, residue, atom>> of a structure
Positions(file) ==
    UNION {UNION {UNION {{<<m, c, r, a>> :
                            a \in 1..Len(file.models[m][c][r].atoms)} :
                         r \in 1..Len(file.models[m][c])} :
                  c \in 1..Len(file.models[m])} :
           m \in 1..Len(file.models)}

\* file order of two positions
Before(x, y) ==
    \/ x[1] < y[1]
    \/ x[1] = y[1] /\ x[2] < y[2]
    \/ x[1] = y[1] /\ x[2] = y[2] /\ x[3] < y[3]
    \/ x[1] = y[1] /\ x[2] = y[2] /\ x[3] = y[3] /\ x[4] <= y[4]

\* the positions the policy takes from the residues that `included` accepts:
\* the atom named CA under "CA", every atom under "all"
Taken(file, atype, included(_)) ==
    {x \in Positions(file) :
        LET residue == file.models[x[1]][x[2]][x[3]]
        IN  /\ included(residue)
            /\ \/ atype = "all"
               \/ atype = "CA" /\ residue.atoms[x[4]] = "CA"}

\* the list handed to the superposition is the first atoms, in file order,
\* of the positions taken
FirstOfTaken(atoms, file, taken) ==
    /\ Len(atoms) <= Cardinality(taken)
    /\ \A x \in taken :
          LET k == Cardinality({y \in taken : Before(y, x)})
          IN  k <= Len(atoms) =>
                atoms[k] = [model |-> x[1], chain |-> x[2], residue |-> x[3],
                            name |-> file.models[x[1]][x[2]][x[3]].atoms[x[4]]]

ComparedOk == Compared /\ comparison.raised = "none"

\* the distinct triples of a list that have the type
OfType(list, itype) == {t \in DistinctTriples(list) : t[3] = itype}

\* C16: by_type has one entry for every type that occurs in either list and
\* no other; the entry of type t holds predicted = |P_t|, experimental =
\* |E_t|, tp = |P_t \cap E_t|, fp = |P_t \ E_t|, fn = |E_t \ P_t| and the
\* precision, recall and f1 of these counts, 0 where a denominator is 0.
C16_ByTypeEntries ==
    ComparedOk =>
        LET by_type == comparison.value.by_type
            types == {t[3] : t \in DistinctTriples(pred_interactions)
                                     \cup DistinctTriples(exp_interactions)}
        IN  /\ {by_type[i][1] : i \in 1..Len(by_type)} = types
            /\ Len(by_type) = Cardinality(types)
            /\ \A i \in 1..Len(by_type) :
                  LET e == by_type[i][2]
                      Pt == OfType(pred_interactions, by_type[i][1])
                      Et == OfType(exp_interactions, by_type[i][1])
                  IN  /\ e.predicted = Cardinality(Pt)
                      /\ e.experimental = Cardinality(Et)
                      /\ e.tp = Cardinality(Pt \cap Et)
                      /\ e.fp = Cardinality(Pt \ Et)
                      /\ e.fn = Cardinality(Et \ Pt)
                      /\ IF Pt = {} THEN e.precision = Zero
                         ELSE IsRatio(e.precision, e.tp, Cardinality(Pt))
                      /\ IF Et = {} THEN e.recall = Zero
                         ELSE IsRatio(e.recall, e.tp, Cardinality(Et))
                      /\ IsF1(e.f1, e.precision, e.recall)

\* one type occurs in the experimental list only, another has a false
\* positive
C16_TypeOnOneSideOnly ==
    /\ ComparedOk
    /\ Len(comparison.value.by_type) = 2
    /\ \E i, j \in 1..2 :
          /\ comparison.value.by_type[i][2].predicted = 0
          /\ comparison.value.by_type[i][2].experimental = 1
          /\ comparison.value.by_type[j][2].fp = 1
          /\ comparison.value.by_type[j][2].fn = 0

\* C17: two lists whose sets of distinct triples are equal and not empty
\* compare with precision = recall = f1 = 1.0 and no false positive or
\* false negative.
C17_EqualSetsScoreOne ==
    (ComparedOk
       /\ DistinctTriples(pred_interactions) = DistinctTriples(exp_interactions)
       /\ DistinctTriples(pred_interactions) # {}) =>
        LET o == comparison.value.overall
        IN  /\ o.precision = <<1, 1>>
            /\ o.recall = <<1, 1>>
            /\ o.f1_score = <<1, 1>>
            /\ o.false_positives = 0
            /\ o.false_negatives = 0

\* two lists of different length and order over the same two triples
C17_SameSetsDifferentLists ==
    /\ ComparedOk
    /\ DistinctTriples(pred_interactions) = DistinctTriples(exp_interactions)
    /\ Cardinality(DistinctTriples(pred_interactions)) = 2
    /\ Len(pred_interactions) # Len(exp_interactions)
    /\ pred_interactions[1] # exp_interactions[1]
    /\ comparison.value.overall.f1_score = <<1, 1>>

\* C20: in every result tp + fp = predicted_total and tp + fn =
\* experimental_total, in every by_type entry tp + fp = predicted and
\* tp + fn = experimental, and the per-type predicted and experimental
\* counts sum to the two totals.
C20_CountIdentities ==
    ComparedOk =>
        LET o == comparison.value.overall
            by_type == comparison.value.by_type
        IN  /\ o.true_positives + o.false_positives = o.predicted_total
            /\ o.true_positives + o.false_negatives = o.experimental_total
            /\ \A i \in 1..Len(by_type) :
                  /\ by_type[i][2].tp + by_type[i][2].fp = by_type[i][2].predicted
                  /\ by_type[i][2].tp + by_type[i][2].fn
                       = by_type[i][2].experimental
            /\ SumField(by_type, "predicted") = o.predicted_total
            /\ SumField(by_type, "experimental") = o.experimental_total

\* one true positive, one false positive and one false negative over two
\* types, from lists that repeat an element
C20_AllThreeCounts ==
    /\ ComparedOk
    /\ comparison.value.overall.true_positives = 1
    /\ comparison.value.overall.false_positives = 1
    /\ comparison.value.overall.false_negatives = 1
    /\ Len(comparison.value.by_type) = 2
    /\ Len(pred_interactions) = 3
    /\ comparison.value.overall.predicted_total = 2

(***************************************************************************)
(* Hot spots of step 4 (SpecHotSpots)                                      *)
(***************************************************************************)

HotSpotsDone == pc = "done" /\ hot_spots # NotCalled /\ hot_spots.raised = "none"

\* the residue ids that are an endpoint of some record
Endpoints ==
    {Res1(interactions4[i]) : i \in 1..Len(interactions4)}
        \cup {Res2(interactions4[i]) : i \in 1..Len(interactions4)}

\* the number of records in which the residue is the first endpoint plus the
\* number in which it is the second
EndpointCount(res) ==
    Cardinality({i \in 1..Len(interactions4) : Res1(interactions4[i]) = res})
      + Cardinality({i \in 1..Len(interactions4) : Res2(interactions4[i]) = res})

\* C19: identify_hot_spots returns exactly the residues that are an endpoint
\* of at least min_interactions records, a record between two atoms of one
\* residue counting twice, each residue once with its count, in order of
\* non-increasing count.
C19_HotSpots ==
    HotSpotsDone =>
        LET spots == hot_spots.value
        IN  /\ {spots[i][1] : i \in 1..Len(spots)}
                 = {res \in Endpoints : EndpointCount(res) >= min_interactions}
            /\ \A i, j \in 1..Len(spots) : spots[i][1] = spots[j][1] => i = j
            /\ \A i \in 1..Len(spots) : spots[i][2] = EndpointCount(spots[i][1])
            /\ \A i, j \in 1..Len(spots) : i < j => spots[i][2] >= spots[j][2]

\* a record inside one residue makes that residue a hot spot with count 2,
\* ahead of no one and behind a residue counted three times, while a
\* residue counted once is left out
C19_SelfContactCountsTwice ==
    /\ HotSpotsDone
    /\ min_interactions = 2
    /\ Len(interactions4) = 3
    /\ \E i \in 1..3 : Res1(interactions4[i]) = Res2(interactions4[i])
    /\ Len(hot_spots.value) = 2
    /\ hot_spots.value[1][2] = 3
    /\ hot_spots.value[2][2] = 2
    /\ Cardinality(Endpoints) = 3

(***************************************************************************)
(* Shape of the results of calculate_rmsd (SpecRmsd)                       *)
(***************************************************************************)

\* C21: every value calculate_rmsd returns has an error field exactly when
\* its n_atoms is 0, and then its rmsd is 0.0; a value without error has
\* n_atoms >= 1 and carries the requested atom_type; with both files parsed,
\* an atom_type other than 'CA' and 'all' selects no atom and gives the
\* 'No matching atoms' result.
C21_ResultShape ==
    (pc = "done" /\ rmsd # NotCalled) =>
        /\ rmsd.raised = "none"
        /\ "error" \in DOMAIN rmsd.value <=> rmsd.value.n_atoms = 0
        /\ "error" \in DOMAIN rmsd.value => rmsd.value.rmsd = 0
        /\ "error" \notin DOMAIN rmsd.value =>
              /\ rmsd.value.n_atoms >= 1
              /\ "atom_type" \in DOMAIN rmsd.value
              /\ rmsd.value.atom_type = atom_type
        /\ (BIOPYTHON_AVAILABLE /\ BothParse /\ atom_type \notin {"CA", "all"}) =>
              /\ rmsd.value = [rmsd |-> 0, n_atoms |-> 0,
                               error |-> "No matching atoms"]
              /\ rmsd.set_atoms = <<>>

\* two structures that both hold amino-acid atoms, asked for backbone atoms
C21_OtherAtomType ==
    /\ pc = "done" /\ rmsd # NotCalled
    /\ BIOPYTHON_AVAILABLE /\ BothParse
    /\ atom_type = "backbone"
    /\ SelectedCount(predicted_pdb, "all") > 0
    /\ SelectedCount(experimental_pdb, "CA") > 0
    /\ rmsd.value.error = "No matching atoms"

(***************************************************************************)
(* The structural quality rating of the report (Spec)                      *)
(***************************************************************************)

\* C22: the structural quality rating written in the report is fixed by the
\* rmsd value of the C-alpha result alone (EXCELLENT below 1.0, GOOD below
\* 2.0, MODERATE below 3.0, POOR otherwise), whether or not the result has
\* an error field: for a C-alpha result with error (rmsd 0.0) the C-alpha
\* RMSD line is left out and the rating written is EXCELLENT.
C22_RatingFromRmsdAlone ==
    (pc = "done" /\ report.written) =>
        LET ca == rmsd_results["CA"]
        IN  /\ report.quality = "EXCELLENT" <=> ca.rmsd < 1000
            /\ report.quality = "GOOD" <=> (ca.rmsd >= 1000 /\ ca.rmsd < 2000)
            /\ report.quality = "MODERATE" <=> (ca.rmsd >= 2000 /\ ca.rmsd < 3000)
            /\ report.quality = "POOR" <=> ca.rmsd >= 3000
            /\ report.ca_line = <<>> <=> "error" \in DOMAIN ca
            /\ "error" \in DOMAIN ca =>
                  /\ ca.rmsd = 0
                  /\ report.quality = "EXCELLENT"

\* a report written after an alignment that selected no C-alpha atom
C22_DegradedRatedExcellent ==
    /\ pc = "done" /\ report.written
    /\ BIOPYTHON_AVAILABLE
    /\ "error" \in DOMAIN rmsd_results["CA"]
    /\ report.ca_line = <<>>
    /\ report.quality = "EXCELLENT"

(***************************************************************************)
(* Agreement of the two contact-map parsers (SpecFields)                   *)
(***************************************************************************)

BothCalled == pc = "parse" /\ parsed4 # NotCalled /\ parsed6 # NotCalled

\* the triple built from a record of step 4: its two chain:resnameresnum ids
\* in lexicographic order, then its type
RecordTriple(r) ==
    LET id1 == r.chain1 \o <<":">> \o r.resname1 \o r.resnum1
        id2 == r.chain2 \o <<":">> \o r.resname2 \o r.resnum2
    IN  IF StrLess(id2, id1) THEN <<id2, id1, r.type>> ELSE <<id1, id2, r.type>>

\* both parsers end the same way, and when they return they have accepted
\* the same pairs: the valid ones, in map order, triple i built from record i
ParsersAgree ==
    /\ parsed4.raised = parsed6.raised
    /\ parsed4.raised = "none" =>
          /\ Len(parsed4.value) = Cardinality(ValidPairs)
          /\ Len(parsed6.value.interactions) = Len(parsed4.value)
          /\ \A i \in 1..Len(parsed4.value) :
                parsed6.value.interactions[i] = RecordTriple(parsed4.value[i])

\* every contact object of the map has a string as type, or none, and a
\* number as distance, or none
FieldsTyped(file) ==
    \A i \in 1..Len(file.items) :
        LET contacts == ContactsOf(file.items[i][2])
        IN  \A j \in 1..Len(contacts) :
               contacts[j].kind = "dict" =>
                  /\ Get(contacts[j], "type", unknown) # Unhashable
                  /\ Get(contacts[j], "distance", 0) # NotANumber

====
